---- MODULE Spec2Model ----
(***************************************************************************)
(* TopoGuide generator (taskenti/topo2): the Streamlit form handler of     *)
(* src/app.py and the two-page composer of src/pdf_generator.py.           *)
(*                                                                         *)
(* Texts typed by the user are sequences of one-character strings, so that *)
(* strip/split/wrap are computed character by character as Python does.    *)
(* Lengths are in thousandths of a point (mm == 2835, i.e. 2.835 pt).      *)
(* A generation request is synchronous: each handler is one action that    *)
(* runs the whole call chain; an exception is a value carried in the       *)
(* generator state (field exc) that makes every later statement a no-op    *)
(* until a try/except of the code catches it.                              *)
(***************************************************************************)
EXTENDS Integers, Sequences, FiniteSets, TLC

VARIABLES
    text,             \* content of a "one item per line" text area
    landmarks,        \* parse_landmarks(text), once parsed
    recommendations,  \* the recommendations split of text, once parsed
    pstate,           \* "input" | "parsed"
    form,             \* the values of the form's widgets
    lib,              \* what the installed libraries do (see Envs)
    ui,               \* what the page shows after the last run of main()
    fs,               \* paths that exist on disk
    ntmp,             \* temporary directories made so far (names the next)
    last,             \* the last call: its entry point and its outcome
    mide,             \* the four sliders of the MIDE tab
    mide_colors,      \* the colours of the MIDE preview, once shown
    wrap,             \* a call of _wrap_text: its arguments and results
    reqs,             \* generation requests in flight, step by step
    geom              \* where the last drawing call placed what it drew

vars == <<text, landmarks, recommendations, pstate, form, lib, ui, fs, ntmp,
          last, mide, mide_colors, wrap, reqs, geom>>
parseVars == <<text, landmarks, recommendations, pstate>>
appVars == <<form, lib, ui, fs, ntmp, last>>
mideVars == <<mide, mide_colors>>

----------------------------------------------------------------------------
(* Bounds of the model *)

MaxTextLen == 7
MaxRequests == 2
MaxWrapLen == 6       \* longest text handed to _wrap_text
MaxWidthChars == 3    \* widest max_width, in characters of the largest font
MaxParagraphs == 5    \* longest list of paragraphs of a record
MaxWords == 4         \* most words of a paragraph
LongWordLen == 80     \* characters of a word of a paragraph
MaxRecs == 6          \* longest list of recommendations of a record

----------------------------------------------------------------------------
(* Python built-ins on texts *)

Chars == {"a", " ", "\n"}
Whitespace == {" ", "\n"}

RECURSIVE lstrip(_)
lstrip(s) ==
    IF s # <<>> /\ Head(s) \in Whitespace THEN lstrip(Tail(s)) ELSE s

RECURSIVE rstrip(_)
rstrip(s) ==
    IF s # <<>> /\ s[Len(s)] \in Whitespace
    THEN rstrip(SubSeq(s, 1, Len(s) - 1)) ELSE s

\* str.strip()
strip(s) == rstrip(lstrip(s))

\* str.split(sep): one item per separator plus one; "" gives [""]
RECURSIVE split(_, _)
split(s, sep) ==
    IF \A i \in 1..Len(s) : s[i] # sep THEN <<s>>
    ELSE LET i == CHOOSE j \in 1..Len(s) :
                      s[j] = sep /\ \A k \in 1..(j - 1) : s[k] # sep
         IN <<SubSeq(s, 1, i - 1)>> \o split(SubSeq(s, i + 1, Len(s)), sep)

\* dict.get(key, default)
Get(d, k, default) == IF k \in DOMAIN d THEN d[k] ELSE default

----------------------------------------------------------------------------
(* app.py: the two line parsers *)

\* x_pos of the landmark found on raw line i (0-based)
x_pos(i) == IF i < 3 THEN 20 + (i * 25) ELSE 50

\* the body of the for loop of parse_landmarks over lines[i..]
RECURSIVE landmarks_from(_, _)
landmarks_from(lines, i) ==
    IF i > Len(lines) THEN <<>>
    ELSE LET line == strip(lines[i])
         IN (IF line # <<>>
             THEN <<[text |-> line, x |-> x_pos(i - 1), y |-> 35,
                     type |-> "landmark"]>>
             ELSE <<>>) \o landmarks_from(lines, i + 1)

parse_landmarks(landmarks_text) ==
    IF landmarks_text # <<>>
    THEN landmarks_from(split(strip(landmarks_text), "\n"), 1)
    ELSE <<>>

\* [r.strip() for r in recommendations_text.split('\n') if r.strip()]
RECURSIVE strip_nonempty(_)
strip_nonempty(lines) ==
    IF lines = <<>> THEN <<>>
    ELSE (IF strip(Head(lines)) # <<>> THEN <<strip(Head(lines))>> ELSE <<>>)
         \o strip_nonempty(Tail(lines))

\* variant of parse_recommendations that keeps the lines untrimmed
parse_recommendations_untrimmed(recommendations_text) ==
    SelectSeq(split(recommendations_text, "\n"), LAMBDA r : strip(r) # <<>>)

parse_recommendations(recommendations_text) ==
    strip_nonempty(split(recommendations_text, "\n"))

----------------------------------------------------------------------------
(* pdf_generator.py: the canvas (reportlab) as the composer uses it *)

mm == 2835
A4 == <<210 * mm, 297 * mm>>

NoText == <<>>

\* One event of a composition: a canvas call or a control event.  A drawing
\* directive has the canvas call as op, the region it belongs to, whether it
\* fills, its fixed caption (label), the user text it prints (utext) and,
\* where the code computes one, its colour.
DC(op, region, fill, label, utext, color) ==
    [op |-> op, region |-> region, fill |-> fill, label |-> label,
     utext |-> utext, color |-> color]

D(op, region, fill, label, utext) == DC(op, region, fill, label, utext, "")

DrawOps == {"rect", "roundRect", "line", "circle", "drawString",
            "drawCentredString", "drawRightString", "drawImage"}

IsDraw(e) == e.op \in DrawOps

\* control events: an exception leaving the statement that raises it, a
\* drawing step returning normally, and the canvas calls that are no drawing
Raise(e) == <<D("raise", "", 0, e, NoText)>>
Returned(step) == <<D("returned", step, 0, "", NoText)>>
ShowPageEv == <<D("showPage", "", 0, "", NoText)>>
SaveEv == <<D("save", "", 0, "", NoText)>>
QREv(status) == <<D("qr", "", 0, status, NoText)>>

\* try: Image.open(path) ... self.c.drawImage(...) except: <swallowed>
\* img is "ok" (opens, decodes and draws) or "bad" (any of them raises)
TryDrawImage(img, region) ==
    IF img = "ok" THEN <<D("drawImage", region, 0, "", NoText)>> ELSE <<>>

\* the positions 1..Len(evs) whose event has the given op, in order
Positions(evs, op) ==
    SelectSeq([i \in 1..Len(evs) |-> i], LAMBDA i : evs[i].op = op)

\* the events that happen: those before the first exception that nothing
\* catches
FirstRaise(evs) ==
    LET raises == Positions(evs, "raise")
    IN IF raises # <<>> THEN raises[1] ELSE Len(evs) + 1

Executed(evs) == SubSeq(evs, 1, FirstRaise(evs) - 1)

\* the directives among the events from..to
Directives(ex, from, to) == SelectSeq(SubSeq(ex, from, to), IsDraw)

\* Canvas.showPage(): closes the current page, whatever it holds; page j is
\* made of the directives between the (j-1)th and the jth showPage
showPage(ex, breaks) ==
    [j \in 1..Len(breaks) |->
        Directives(ex, (IF j = 1 THEN 0 ELSE breaks[j - 1]) + 1,
                   breaks[j] - 1)]

\* the directives issued since the last showPage
CurrentPage(ex, breaks) ==
    Directives(ex, (IF breaks = <<>> THEN 0 ELSE breaks[Len(breaks)]) + 1,
               Len(ex))

\* Canvas.save(): showPage() if the current page holds anything, then write
save(ex, breaks) ==
    IF Len(CurrentPage(ex, breaks)) > 0
    THEN showPage(ex, breaks) \o <<CurrentPage(ex, breaks)>>
    ELSE showPage(ex, breaks)

StepName(e) == e.region

\* the generator after the executed events ex
GeneratorOf(output_path, ex, breaks, exc) ==
    LET saved == Positions(ex, "save") # <<>>
        qrs == SelectSeq(ex, LAMBDA e : e.op = "qr")
        rets == SelectSeq(ex, LAMBDA e : e.op = "returned")
    IN [output_path |-> output_path,
        pagesize |-> A4,
        W |-> A4[2], H |-> A4[1],   \* LANDSCAPE_WIDTH, LANDSCAPE_HEIGHT
        pages |-> IF saved THEN save(ex, breaks) ELSE showPage(ex, breaks),
        code |-> IF saved THEN <<>> ELSE CurrentPage(ex, breaks),
        saved |-> saved,
        exc |-> exc,
        steps |-> [i \in 1..Len(rets) |-> StepName(rets[i])],
        qr |-> IF qrs = <<>> THEN "not_attempted" ELSE qrs[Len(qrs)].label]

\* the state of a generator after the events evs: TopoGuidePDFGenerator
\* (canvas.Canvas(output_path, pagesize=A4), setPageSize(A4), the class
\* constants) and what the calls made of it
Generator(output_path, evs) ==
    GeneratorOf(output_path, Executed(evs),
                Positions(Executed(evs), "showPage"),
                IF FirstRaise(evs) <= Len(evs)
                THEN evs[FirstRaise(evs)].label ELSE "none")

NewGenerator(output_path) == Generator(output_path, <<>>)

\* self.LANDSCAPE_WIDTH, self.LANDSCAPE_HEIGHT (lines 24 and 628)
LANDSCAPE_WIDTH == A4[2]
LANDSCAPE_HEIGHT == A4[1]

----------------------------------------------------------------------------
(* pdf_generator.py: text wrapping *)

\* variant of Join that puts the space before the first word of a line too
Join_always_space(a, b) == a \o <<" ">> \o b

Join(a, b) == IF a = <<>> THEN b ELSE a \o <<" ">> \o b

RECURSIVE wrap_words(_, _, _, _)
wrap_words(words, current_line, max_width, font_size) ==
    IF words = <<>>
    THEN (IF current_line # <<>> THEN <<current_line>> ELSE <<>>)
    ELSE LET word == Head(words)
             test_line == Join(current_line, word)
         IN IF Len(test_line) * font_size * 500 <= max_width
            THEN wrap_words(Tail(words), test_line, max_width, font_size)
            ELSE (IF current_line # <<>> THEN <<current_line>> ELSE <<>>)
                 \o wrap_words(Tail(words), word, max_width, font_size)

\* variant of _wrap_text that lets a line run one character over the width
_wrap_text_one_over(t, max_width, font_size) ==
    wrap_words(split(t, " "), <<>>, max_width + font_size * 500, font_size)

\* variant of _wrap_text that returns at most its first two lines
_wrap_text_two_lines(t, max_width, font_size) ==
    SubSeq(wrap_words(split(t, " "), <<>>, max_width, font_size), 1,
           IF Len(wrap_words(split(t, " "), <<>>, max_width, font_size)) < 2
           THEN Len(wrap_words(split(t, " "), <<>>, max_width, font_size))
           ELSE 2)

\* char_width = font_size * 0.5 (in thousandths of a point: font_size * 500)
_wrap_text(t, max_width, font_size) ==
    wrap_words(split(t, " "), <<>>, max_width, font_size)

Take(s, n) == SubSeq(s, 1, IF Len(s) < n THEN Len(s) ELSE n)

----------------------------------------------------------------------------
(* pdf_generator.py: page 1.  Each drawing step is the sequence of events *)
(* it produces.                                                           *)

\* Python truthiness of an optional image reference ("none" is None)
Truthy(img) == img # "none"

_draw_header(route_code, route_name, logo_left, logo_right) ==
    <<D("rect", "header", 1, "", NoText)>>
    \o (IF Truthy(logo_left) THEN TryDrawImage(logo_left, "logo_left")
        ELSE <<>>)
    \o (IF Truthy(logo_right) THEN TryDrawImage(logo_right, "logo_right")
        ELSE <<>>)
    \o <<D("drawCentredString", "header", 0, "", route_code),
         D("drawCentredString", "header", 0, "", route_name)>>
    \o Returned("header")

RECURSIVE draw_landmarks(_)
draw_landmarks(lms) ==
    IF lms = <<>> THEN <<>>
    ELSE LET text_ == Get(Head(lms), "text", NoText)
         IN <<D("roundRect", "landmark", 1, "", text_),
              D("drawCentredString", "landmark", 0, "", text_)>>
            \o draw_landmarks(Tail(lms))

_draw_panoramic(panoramic_path, lms) ==
    (IF Truthy(panoramic_path) THEN TryDrawImage(panoramic_path, "panoramic")
     ELSE <<>>)
    \o <<D("drawCentredString", "panoramic", 0, "MIRADOR DEL PICO", NoText)>>
    \o (IF lms # <<>> THEN draw_landmarks(lms) ELSE <<>>)
    \o Returned("panoramic")

draw_lines(lines, region) ==
    [i \in 1..Len(lines) |-> D("drawString", region, 0, "", lines[i])]

RECURSIVE draw_paragraphs(_, _, _)
draw_paragraphs(paragraphs, i, col_width) ==
    IF i > Len(paragraphs) THEN <<>>
    ELSE (IF i - 1 < 4
          THEN draw_lines(Take(_wrap_text(paragraphs[i], col_width, 9), 3),
                          "descriptions")
          ELSE <<>>)
         \o draw_paragraphs(paragraphs, i + 1, col_width)

_draw_descriptions(paragraphs) ==
    LET col_width == ((LANDSCAPE_WIDTH - 30 * mm) * 65) \div 100
    IN draw_paragraphs(paragraphs, 1, col_width) \o Returned("descriptions")

\* rec[:60] + ("..." if len(rec) > 60 else "")
Ellipsis(rec) ==
    IF Len(rec) > 60 THEN Take(rec, 60) \o <<".", ".", ".">> ELSE rec

RECURSIVE draw_recs(_)
draw_recs(recs) ==
    IF recs = <<>> THEN <<>>
    ELSE <<D("circle", "recommendations", 1, "", NoText),
           D("drawString", "recommendations", 0, "", Ellipsis(Head(recs)))>>
         \o draw_recs(Tail(recs))

_draw_recommendations(recs) ==
    <<D("rect", "recommendations", 1, "", NoText),
      D("rect", "recommendations", 0, "", NoText),
      D("drawString", "recommendations", 0, "RECOMENDACIONES", NoText)>>
    \o draw_recs(Take(recs, 5))
    \o Returned("recommendations")

\* names bound inside _draw_footer: its parameters and the module's globals
FooterLocals == {"self", "page_num"}
ModuleGlobals ==
    {"colors", "A4", "getSampleStyleSheet", "ParagraphStyle", "mm", "inch",
     "canvas", "Table", "TableStyle", "Paragraph", "TA_CENTER", "TA_JUSTIFY",
     "TA_LEFT", "Image", "io", "qrcode", "datetime",
     "TopoGuidePDFGenerator", "create_topoguide_pdf"}

FooterLabel(page_num) == IF page_num = 1 THEN "1/2" ELSE "2/2"

FooterRegion(page_num) == IF page_num = 1 THEN "footer1" ELSE "footer2"

\* the last statement evaluates data.get('date', ...): a NameError unless
\* the name data is bound
_draw_footer(page_num) ==
    <<D("line", FooterRegion(page_num), 0, "", NoText),
      D("drawString", FooterRegion(page_num), 0, FooterLabel(page_num),
        NoText),
      D("drawCentredString", FooterRegion(page_num), 0, "Castilla-La Mancha",
        NoText)>>
    \o (IF "data" \in FooterLocals \cup ModuleGlobals
        THEN <<D("drawRightString", FooterRegion(page_num), 0, "date",
                 NoText)>>
        ELSE Raise("NameError"))
    \o Returned(FooterRegion(page_num))

_draw_page1(data, logo_left, logo_right) ==
    _draw_header(Get(data, "route_code", NoText),
                 Get(data, "route_name", NoText), logo_left, logo_right)
    \o _draw_panoramic(Get(data, "panoramic_image", "none"),
                       Get(data, "landmarks", <<>>))
    \o _draw_descriptions(Get(data, "paragraphs", <<>>))
    \o _draw_recommendations(Get(data, "recommendations", <<>>))
    \o _draw_footer(1)

----------------------------------------------------------------------------
(* pdf_generator.py: page 2 *)

\* What the installed libraries do is not fixed by the source; every call is
\* made under one environment env:
\*   env.caps  whether reportlab.lib.colors defines the capitalised names
\*             colors.White / colors.Green / colors.Red the code reads
\*   env.qr    "ok", or where the QR step raises: "encode_fail" (qrcode
\*             make / make_image / save) or "draw_fail" (drawImage)
Envs == [caps : BOOLEAN, qr : {"ok", "encode_fail", "draw_fail"}]

RECURSIVE draw_waypoints(_, _)
draw_waypoints(wps, env) ==
    IF wps = <<>> THEN <<>>
    ELSE LET type == Get(Head(wps), "type", "")
         IN (IF type \in {"start", "end"}
             THEN (IF env.caps
                   THEN <<D("circle", "map", 1, "", NoText),
                          D("drawCentredString", "map", 0,
                            IF type = "start" THEN "INICIO" ELSE "FINAL",
                            NoText)>>
                   ELSE Raise("AttributeError"))
             ELSE IF type = "viewpoint"
             THEN <<D("circle", "map", 1, "", NoText)>>
             ELSE <<>>)
            \o draw_waypoints(Tail(wps), env)

_draw_map(map_path, waypoints, env) ==
    (IF Truthy(map_path) THEN TryDrawImage(map_path, "map") ELSE <<>>)
    \o <<D("rect", "map", 0, "", NoText)>>
    \o (IF waypoints # <<>> THEN draw_waypoints(waypoints, env) ELSE <<>>)
    \o Returned("map")

draw_labels(labels, region) ==
    [i \in 1..Len(labels) |->
        D("drawCentredString", region, 0, labels[i], NoText)]

_draw_elevation_profile(profile_path, data) ==
    (IF Truthy(profile_path) THEN TryDrawImage(profile_path, "profile")
     ELSE <<>>)
    \o draw_labels(<<"INICIO", "MIRABUENO", "ARAGOSA", "FINAL">>, "profile")
    \o Returned("profile")

RECURSIVE draw_rows(_, _)
draw_rows(data_rows, i) ==
    IF i > Len(data_rows) THEN <<>>
    ELSE (IF (i - 1) % 2 = 0
          THEN <<D("rect", "technical_table", 1, "", NoText),
                 D("rect", "technical_table", 1, "", NoText)>>
          ELSE <<>>)
         \o <<D("drawString", "technical_table", 0, data_rows[i][1], NoText),
              D("drawString", "technical_table", 0, "", data_rows[i][2])>>
         \o draw_rows(data_rows, i + 1)

_draw_technical_table(data) ==
    LET data_rows ==
            << <<"Horario:", Get(data, "time", NoText)>>,
               <<"Distancia:", Get(data, "distance", NoText)>>,
               <<"Desnivel Subida:", Get(data, "elevation_up", NoText)>>,
               <<"Desnivel Bajada:", Get(data, "elevation_down", NoText)>>,
               <<"Tipo de Ruta:", Get(data, "route_type", NoText)>> >>
    IN <<D("rect", "technical_table", 1, "", NoText),
         D("drawCentredString", "technical_table", 0, "FICHA TECNICA",
           NoText)>>
       \o draw_rows(data_rows, 1)
       \o Returned("technical_table")

GREEN_PRIMARY == "#007A33"
OCHRE == "#E8AF2E"

\* "Color según valor" of _draw_mide_grid
mide_color(value) ==
    IF value <= 2 THEN GREEN_PRIMARY
    ELSE IF value = 3 THEN OCHRE
    ELSE "#E74C3C"

RECURSIVE draw_cells(_, _)
draw_cells(mide_items, i) ==
    IF i > Len(mide_items) THEN <<>>
    ELSE LET value == mide_items[i][2]
             color == mide_color(value)
         IN <<DC("rect", "mide_grid", 0, "", NoText, color),
              DC("drawCentredString", "mide_grid", 0, "value", <<value>>,
                 color),
              D("drawCentredString", "mide_grid", 0, mide_items[i][1],
                NoText),
              D("drawCentredString", "mide_grid", 0, mide_items[i][3],
                NoText)>>
            \o draw_cells(mide_items, i + 1)

_draw_mide_grid(mide_data) ==
    LET mide_items ==
            << <<"SEVERIDAD DEL MEDIO", Get(mide_data, "severity", 1),
                 "Medio">>,
               <<"ORIENTACION", Get(mide_data, "orientation", 2),
                 "Itinerario">>,
               <<"DIFICULTAD", Get(mide_data, "difficulty", 2),
                 "Desplazamiento">>,
               <<"ESFUERZO", Get(mide_data, "effort", 2), "Esfuerzo">> >>
    IN draw_cells(mide_items, 1) \o Returned("mide_grid")

\* lines 552-570: no condition on the URL and no try around the QR code
QRCode(data, env) ==
    IF env.qr = "encode_fail"
    THEN QREv("encode_failed") \o Raise("QRError")
    ELSE IF env.qr = "draw_fail"
    THEN QREv("draw_failed") \o Raise("QRError")
    ELSE QREv("drawn") \o <<D("drawImage", "qr", 0, "", NoText)>>

_draw_info_bottom(data, env) ==
    <<D("drawString", "info_bottom", 0, "SENALIZACION", NoText)>>
    \* self.c.setFillColor(colors.White)
    \o (IF env.caps THEN <<>> ELSE Raise("AttributeError"))
    \o <<D("rect", "info_bottom", 1, "", NoText),
         D("rect", "info_bottom", 1, "", NoText),
         D("rect", "info_bottom", 1, "", NoText),
         D("drawString", "info_bottom", 0, "DISFRUTA DEL PARQUE", NoText)>>
    \o draw_lines(<<NoText, NoText, NoText, NoText>>, "consejos")
    \o <<D("drawString", "info_bottom", 0, "TELEFONOS DE INTERES", NoText),
         D("drawString", "info_bottom", 0, "Emergencias:",
           Get(data, "emergency", NoText)),
         D("drawString", "info_bottom", 0, "Parque:",
           Get(data, "phone", NoText)),
         D("drawString", "info_bottom", 0, "web", Get(data, "web", NoText))>>
    \o QRCode(data, env)
    \o Returned("info_bottom")

_draw_mide_panel(mide_data, technical_data, env) ==
    <<D("rect", "info_panel", 1, "", NoText),
      D("rect", "info_panel", 0, "", NoText)>>
    \o _draw_technical_table(technical_data)
    \o _draw_mide_grid(mide_data)
    \o _draw_info_bottom(technical_data, env)
    \o Returned("mide_panel")

\* variant of _draw_page2 that draws the elevation profile before the map
_draw_page2_profile_first(data, env) ==
    <<D("rect", "header2", 1, "", NoText),
      D("drawCentredString", "header2", 0, "INFORMACION TECNICA", NoText)>>
    \o Returned("header2")
    \o _draw_elevation_profile(Get(data, "profile_image", "none"), data)
    \o _draw_map(Get(data, "map_image", "none"),
                 Get(data, "waypoints", <<>>), env)
    \o _draw_mide_panel(Get(data, "mide", <<>>), Get(data, "technical", <<>>),
                        env)
    \o _draw_footer(2)

\* _draw_page2: header band, map, elevation profile, MIDE panel, footer
_draw_page2(data, env) ==
    <<D("rect", "header2", 1, "", NoText),
      D("drawCentredString", "header2", 0, "INFORMACION TECNICA", NoText)>>
    \o Returned("header2")
    \o _draw_map(Get(data, "map_image", "none"),
                 Get(data, "waypoints", <<>>), env)
    \o _draw_elevation_profile(Get(data, "profile_image", "none"), data)
    \o _draw_mide_panel(Get(data, "mide", <<>>), Get(data, "technical", <<>>),
                        env)
    \o _draw_footer(2)

----------------------------------------------------------------------------
(* pdf_generator.py: generate and create_topoguide_pdf *)

generate(page1_data, page2_data, logo_left, logo_right, env) ==
    ShowPageEv
    \o _draw_page1(page1_data, logo_left, logo_right)
    \o ShowPageEv
    \o _draw_page2(page2_data, env)
    \o SaveEv

DefaultMide == [severity |-> 1, orientation |-> 2, difficulty |-> 2,
                effort |-> 2]

page1_data_of(data) ==
    [route_code |-> Get(data, "route_code", NoText),
     route_name |-> Get(data, "route_name", NoText),
     panoramic_image |-> Get(data, "panoramic_image", "none"),
     landmarks |-> Get(data, "landmarks", <<>>),
     paragraphs |-> Get(data, "paragraphs", <<>>),
     recommendations |-> Get(data, "recommendations", <<>>),
     date |-> Get(data, "date", "today")]

page2_data_of(data) ==
    [map_image |-> Get(data, "map_image", "none"),
     profile_image |-> Get(data, "profile_image", "none"),
     waypoints |-> Get(data, "waypoints", <<>>),
     mide |-> Get(data, "mide", DefaultMide),
     technical |->
        [time |-> Get(data, "time", NoText),
         distance |-> Get(data, "distance", NoText),
         elevation_up |-> Get(data, "elevation_up", NoText),
         elevation_down |-> Get(data, "elevation_down", NoText),
         route_type |-> Get(data, "route_type", NoText),
         emergency |-> Get(data, "emergency", NoText),
         phone |-> Get(data, "phone", NoText),
         web |-> Get(data, "web", NoText)]]

create_topoguide_pdf(output_path, data, logo_left, logo_right, env) ==
    Generator(output_path,
              generate(page1_data_of(data), page2_data_of(data), logo_left,
                       logo_right, env))

----------------------------------------------------------------------------
(* app.py: generate_pdf and the Generate button of main *)

ImageKeys == <<"panoramic", "map", "profile">>

\* the files generate_pdf writes for the uploaded images (lines 518-526)
RECURSIVE image_files(_, _, _)
image_files(images, temp_dir, i) ==
    IF i > Len(ImageKeys) THEN {}
    ELSE (IF Truthy(Get(images, ImageKeys[i], "none"))
          THEN {<<temp_dir, ImageKeys[i]>>} ELSE {})
         \cup image_files(images, temp_dir, i + 1)

\* code.replace(' ', '_')
Replace(s) == [i \in 1..Len(s) |-> IF s[i] = " " THEN "_" ELSE s[i]]

NoPath == <<>>

\* the result of a call that built no canvas
NoGenerator == NewGenerator(NoPath)

\* the pdf_data dictionary generate_pdf builds (lines 536-564)
pdf_data_of(data) ==
    [route_code |-> data.basic.route_code,
     route_name |-> data.basic.route_name,
     route_type |-> data.basic.route_type,
     paragraphs |-> data.basic.paragraphs,
     panoramic_image |-> Get(data.images, "panoramic", "none"),
     map_image |-> Get(data.images, "map", "none"),
     profile_image |-> Get(data.images, "profile", "none"),
     landmarks |-> parse_landmarks(Get(data.images, "landmarks", NoText)),
     distance |-> data.metrics.distance,
     time |-> data.metrics.time,
     elevation_up |-> data.metrics.elevation_up,
     elevation_down |-> data.metrics.elevation_down,
     mide |-> data.mide,
     recommendations |-> data.additional.recommendations,
     emergency |-> data.additional.emergency,
     phone |-> data.additional.phone,
     web |-> data.additional.web,
     date |-> "today"]

\* variant of mkdtemp that always returns the same directory
mkdtemp_fixed(n) == <<"tmp", 0>>

\* tempfile.mkdtemp(): a directory no earlier call has returned (the nth)
mkdtemp(n) == <<"tmp", n>>

\* generate_pdf(data), making temporary directory number n on disk fs0.
\* Line 513 reads data['route_code'] right after mkdtemp.
generate_pdf(data, n, fs0, e) ==
    LET temp_dir == mkdtemp(n)
        fs1 == fs0 \cup {temp_dir}
    IN IF "route_code" \notin DOMAIN data
       THEN [exc |-> "KeyError", fs |-> fs1, composed |-> FALSE,
             path |-> NoPath, g |-> NoGenerator]
       ELSE
       LET output_path == <<temp_dir, <<"topoguia_">> \o
                                      Replace(data["route_code"])>>
           fs2 == fs1 \cup image_files(data.images, temp_dir, 1)
           \* create_topoguide_pdf(output_path, pdf_data): no logo is passed
           g == create_topoguide_pdf(output_path, pdf_data_of(data),
                                     "none", "none", e)
       IN [exc |-> g.exc,
           fs |-> IF g.saved THEN fs2 \cup {output_path} ELSE fs2,
           composed |-> TRUE, path |-> output_path, g |-> g]

\* variant of ValidationFails that refuses only when both fields are empty
ValidationFails_both(basic_data) ==
    basic_data.route_code = NoText /\ basic_data.route_name = NoText

\* main, line 675: not basic_data['route_code'] or not basic_data['route_name']
ValidationFails(basic_data) ==
    basic_data.route_code = NoText \/ basic_data.route_name = NoText

\* the five tab_* results main collects into all_data (lines 680-686)
all_data_of(f) ==
    [basic |-> [route_code |-> f.route_code,
                route_name |-> f.route_name,
                route_type |-> <<"C">>,
                paragraphs |-> f.paragraphs],
     images |-> [panoramic |-> f.panoramic, map |-> f.map,
                 profile |-> f.profile, landmarks |-> f.landmarks],
     metrics |-> [distance |-> <<"1">>, time |-> <<"2", "h">>,
                  elevation_up |-> <<"3">>, elevation_down |-> <<"4">>],
     mide |-> DefaultMide,
     additional |-> [recommendations |->
                         parse_recommendations(f.recommendations),
                     emergency |-> <<"1", "1", "2">>, phone |-> <<"9">>,
                     web |-> f.web,
                     logo_left |-> f.logo_left,
                     logo_right |-> f.logo_right]]

----------------------------------------------------------------------------
(* Inputs *)

Img == {"none", "ok", "bad"}      \* absent, decodable, fails to open/decode
Codes == {<<>>, <<"a">>}
Urls == {<<>>, <<"u">>}

Forms ==
    [route_code : Codes, route_name : Codes,
     paragraphs : {<<<<"a", " ", "a">>>>},
     panoramic : Img, map : Img, profile : Img,
     landmarks : {<<"a", "\n", "a">>},
     recommendations : {<<"a">>},
     web : Urls,
     logo_left : Img, logo_right : {"none", "ok"}]

NoCall ==
    [entry |-> "none", called |-> FALSE, composed |-> FALSE, exc |-> "none",
     created |-> {}, offered |-> FALSE, g |-> NoGenerator]

\* the sliders at their defaults and no preview shown yet
InitNoMide == mide = DefaultMide /\ mide_colors = <<>>

\* no call of _wrap_text made
NoWrap == [state |-> "none", max_width |-> 0, font_size |-> 0,
           lines |-> <<>>, relines |-> <<>>]
InitNoWrap == wrap = NoWrap

\* no request in flight
InitNoReqs == reqs = <<>>

\* no drawing call made
InitNoGeom == geom = <<>>

----------------------------------------------------------------------------
(* Actions *)

\* main() with generate_btn pressed (lines 671-720)
PressGenerate ==
    /\ ntmp < MaxRequests
    /\ IF ValidationFails(all_data_of(form).basic)
       THEN /\ ui' = "validation_error"
            /\ fs' = fs
            /\ ntmp' = ntmp
            /\ last' = [NoCall EXCEPT !.entry = "main"]
       ELSE \E r \in {generate_pdf(all_data_of(form), ntmp + 1, fs, lib)} :
              \* open(pdf_path, 'rb') inside the same try
              LET exc == IF r.exc = "none" /\ r.path \notin r.fs
                         THEN "FileNotFoundError" ELSE r.exc
              IN /\ ui' = IF exc = "none" THEN "download"
                          ELSE "generation_error"
                 /\ fs' = r.fs
                 /\ ntmp' = ntmp + 1
                 /\ last' = [NoCall EXCEPT !.entry = "main",
                                           !.called = TRUE,
                                           !.composed = r.composed,
                                           !.exc = exc,
                                           !.created = r.fs \ fs,
                                           !.offered = (exc = "none"),
                                           !.g = r.g]
    /\ UNCHANGED <<form, lib>>
    /\ UNCHANGED parseVars
    /\ UNCHANGED <<mideVars, wrap, reqs, geom>>

\* main() rerun by any other widget: generate_btn is False, nothing is shown
Rerun ==
    /\ last.entry = "main"
    /\ ui' = "idle"
    /\ last' = NoCall
    /\ UNCHANGED <<form, lib, fs, ntmp>>
    /\ UNCHANGED parseVars
    /\ UNCHANGED <<mideVars, wrap, reqs, geom>>

Init ==
    /\ text = <<>> /\ landmarks = <<>> /\ recommendations = <<>>
    /\ pstate = "input"
    /\ form \in Forms /\ lib \in Envs
    /\ ui = "idle" /\ fs = {} /\ ntmp = 0 /\ last = NoCall
    /\ InitNoMide /\ InitNoWrap /\ InitNoReqs /\ InitNoGeom

Next == PressGenerate \/ Rerun

Spec == Init /\ [][Next]_vars

----------------------------------------------------------------------------
(* The composer called directly *)

\* create_topoguide_pdf(output_path, data, logo_left, logo_right), the
\* module's documented entry point, called with the dictionary generate_pdf
\* would build from the form and with the form's two logos
CallCreate ==
    /\ last.entry # "create"
    /\ \E g \in {create_topoguide_pdf(<<"out">>,
                                      pdf_data_of(all_data_of(form)),
                                      form.logo_left, form.logo_right,
                                      lib)} :
          /\ fs' = IF g.saved THEN fs \cup {<<"out">>} ELSE fs
          /\ last' = [NoCall EXCEPT !.entry = "create", !.composed = TRUE,
                                    !.exc = g.exc,
                                    !.created = IF g.saved
                                                THEN {<<"out">>} ELSE {},
                                    !.g = g]
    /\ UNCHANGED <<form, lib, ui, ntmp>>
    /\ UNCHANGED parseVars
    /\ UNCHANGED <<mideVars, wrap, reqs, geom>>

\* TopoGuidePDFGenerator(path)._draw_page2(page2_data): page 2 composed on
\* its own, with the page2_data create_topoguide_pdf would hand to generate
CallDrawPage2 ==
    /\ last.entry # "page2"
    /\ \E g \in {Generator(<<"out">>,
                           _draw_page2(page2_data_of(
                                           pdf_data_of(all_data_of(form))),
                                       lib))} :
          last' = [NoCall EXCEPT !.entry = "page2", !.composed = TRUE,
                                 !.exc = g.exc, !.g = g]
    /\ UNCHANGED <<form, lib, ui, fs, ntmp>>
    /\ UNCHANGED parseVars
    /\ UNCHANGED <<mideVars, wrap, reqs, geom>>

InitCompose ==
    /\ text = <<>> /\ landmarks = <<>> /\ recommendations = <<>>
    /\ pstate = "input"
    /\ form \in {f \in Forms : f.route_code # <<>> /\ f.route_name # <<>>}
    /\ lib \in Envs
    /\ ui = "idle" /\ fs = {} /\ ntmp = 0 /\ last = NoCall
    /\ InitNoMide /\ InitNoWrap /\ InitNoReqs /\ InitNoGeom

NextCompose == CallCreate \/ CallDrawPage2

SpecCompose == InitCompose /\ [][NextCompose]_vars

----------------------------------------------------------------------------
(* The line parsers on their own: every text of at most MaxTextLen chars *)

RECURSIVE TextsOfLen(_)
TextsOfLen(n) ==
    IF n = 0 THEN {<<>>}
    ELSE {Append(t, c) : t \in TextsOfLen(n - 1), c \in Chars}

Texts == UNION {TextsOfLen(n) : n \in 0..MaxTextLen}

\* the text is parsed (app.py:464 and app.py:547)
ParseText ==
    /\ pstate = "input"
    /\ landmarks' = parse_landmarks(text)
    /\ recommendations' = parse_recommendations(text)
    /\ pstate' = "parsed"
    /\ UNCHANGED text
    /\ UNCHANGED appVars
    /\ UNCHANGED <<mideVars, wrap, reqs, geom>>

InitParse ==
    /\ text \in Texts /\ landmarks = <<>> /\ recommendations = <<>>
    /\ pstate = "input"
    /\ form \in {f \in Forms : f.route_code = <<>> /\ f.route_name = <<>>
                               /\ f.web = <<>> /\ f.panoramic = "none"
                               /\ f.map = "none" /\ f.profile = "none"
                               /\ f.logo_left = "none"
                               /\ f.logo_right = "none"}
    /\ lib = [caps |-> TRUE, qr |-> "ok"]
    /\ ui = "idle" /\ fs = {} /\ ntmp = 0 /\ last = NoCall
    /\ InitNoMide /\ InitNoWrap /\ InitNoReqs /\ InitNoGeom

NextParse == ParseText

SpecParse == InitParse /\ [][NextParse]_vars

----------------------------------------------------------------------------
(* The MIDE ratings: the preview of the form and the grid of the document *)

\* app.py: options=[1, 2, 3, 4, 5] of the four select_sliders
Ratings == 1..5

COLOR_PRIMARY == "#007A33"
COLOR_SECONDARY == "#E8AF2E"

\* tab_mide: the scale table shown next to the sliders (Valor -> Color)
ScaleTable ==
    [v \in Ratings |->
        IF v <= 2 THEN "Verde"
        ELSE IF v = 3 THEN "Amarillo"
        ELSE IF v = 4 THEN "Naranja"
        ELSE "Rojo"]

\* tab_mide: mide_values
mide_values(m) == <<m.severity, m.orientation, m.difficulty, m.effort>>

\* variant of preview_color that puts the value 2 with 3
preview_color_from_two(val) ==
    IF val < 2 THEN COLOR_PRIMARY
    ELSE IF val <= 3 THEN COLOR_SECONDARY
    ELSE "#E74C3C"

\* tab_mide: the colour appended to mide_colors for one value
preview_color(val) ==
    IF val <= 2 THEN COLOR_PRIMARY
    ELSE IF val = 3 THEN COLOR_SECONDARY
    ELSE "#E74C3C"

\* tab_mide: for val in mide_values: mide_colors.append(...)
tab_mide(m) ==
    [i \in 1..Len(mide_values(m)) |-> preview_color(mide_values(m)[i])]

\* the MIDE tab is rendered: the preview cells take their colours
ShowMidePreview ==
    /\ mide_colors = <<>>
    /\ mide_colors' = tab_mide(mide)
    /\ UNCHANGED mide
    /\ UNCHANGED <<parseVars, appVars, wrap, reqs, geom>>

\* TopoGuidePDFGenerator(path)._draw_mide_grid(x, y, mide_data, width) with
\* the dictionary tab_mide returns
CallDrawMideGrid ==
    /\ last.entry # "mide_grid"
    /\ \E g \in {Generator(<<"out">>, _draw_mide_grid(mide))} :
          last' = [NoCall EXCEPT !.entry = "mide_grid", !.composed = TRUE,
                                 !.exc = g.exc, !.g = g]
    /\ UNCHANGED <<form, lib, ui, fs, ntmp>>
    /\ UNCHANGED <<parseVars, mideVars, wrap, reqs, geom>>

InitMide ==
    /\ text = <<>> /\ landmarks = <<>> /\ recommendations = <<>>
    /\ pstate = "input"
    /\ form \in {f \in Forms : f.route_code = <<>> /\ f.route_name = <<>>
                               /\ f.web = <<>> /\ f.panoramic = "none"
                               /\ f.map = "none" /\ f.profile = "none"
                               /\ f.logo_left = "none"
                               /\ f.logo_right = "none"}
    /\ lib = [caps |-> TRUE, qr |-> "ok"]
    /\ ui = "idle" /\ fs = {} /\ ntmp = 0 /\ last = NoCall
    /\ mide \in [severity : Ratings, orientation : Ratings,
                 difficulty : Ratings, effort : Ratings]
    /\ mide_colors = <<>>
    /\ InitNoWrap /\ InitNoReqs /\ InitNoGeom

NextMide == ShowMidePreview \/ CallDrawMideGrid

SpecMide == InitMide /\ [][NextMide]_vars

----------------------------------------------------------------------------
(* _wrap_text on its own: every text of at most MaxWrapLen characters *)

WrapChars == {"a", "b", " "}

RECURSIVE WrapTextsOfLen(_)
WrapTextsOfLen(n) ==
    IF n = 0 THEN {<<>>}
    ELSE {Append(t, c) : t \in WrapTextsOfLen(n - 1), c \in WrapChars}

WrapTexts == UNION {WrapTextsOfLen(n) : n \in 0..MaxWrapLen}

\* the font sizes the composer sets for running text
FontSizes == {7, 9}

\* widths of no character and of 1..MaxWidthChars characters of 9 pt text
Widths == {k * 4500 : k \in 0..MaxWidthChars}

\* " ".join(lines)
RECURSIVE JoinLines(_)
JoinLines(ls) ==
    IF ls = <<>> THEN <<>>
    ELSE IF Len(ls) = 1 THEN ls[1]
    ELSE ls[1] \o <<" ">> \o JoinLines(Tail(ls))

\* lines = self._wrap_text(text, max_width, font_size, font_name)
CallWrapText ==
    /\ wrap.state = "args"
    /\ wrap' = [wrap EXCEPT !.state = "wrapped",
                            !.lines = _wrap_text(text, wrap.max_width,
                                                 wrap.font_size)]
    /\ UNCHANGED <<parseVars, appVars, mideVars, reqs, geom>>

\* the returned lines, joined with single spaces, are wrapped again with the
\* same width and font size
CallWrapTextAgain ==
    /\ wrap.state = "wrapped"
    /\ wrap' = [wrap EXCEPT !.state = "rewrapped",
                            !.relines = _wrap_text(JoinLines(wrap.lines),
                                                   wrap.max_width,
                                                   wrap.font_size)]
    /\ UNCHANGED <<parseVars, appVars, mideVars, reqs, geom>>

InitWrap ==
    /\ text \in WrapTexts /\ landmarks = <<>> /\ recommendations = <<>>
    /\ pstate = "input"
    /\ form \in {f \in Forms : f.route_code = <<>> /\ f.route_name = <<>>
                               /\ f.web = <<>> /\ f.panoramic = "none"
                               /\ f.map = "none" /\ f.profile = "none"
                               /\ f.logo_left = "none"
                               /\ f.logo_right = "none"}
    /\ lib = [caps |-> TRUE, qr |-> "ok"]
    /\ ui = "idle" /\ fs = {} /\ ntmp = 0 /\ last = NoCall
    /\ InitNoMide /\ InitNoReqs /\ InitNoGeom
    /\ \E w \in Widths, s \in FontSizes :
          wrap = [NoWrap EXCEPT !.state = "args", !.max_width = w,
                                !.font_size = s]

NextWrap == CallWrapText \/ CallWrapTextAgain

SpecWrap == InitWrap /\ [][NextWrap]_vars

----------------------------------------------------------------------------
(* Concurrent sessions: main's generation branch, statement by statement *)

\* the request a session starts when Generate is pressed on a valid form
NewRequest ==
    [pc |-> "mkdtemp", n |-> 0, created |-> {}, read |-> {},
     path |-> NoPath, exc |-> "none", shown |-> "spinner",
     offered |-> FALSE]

\* variant of next_pc that loses the exception
next_pc_no_except(pc, exc) ==
    IF pc = "generate_pdf" THEN "open"
    ELSE IF pc = "open" THEN "download"
    ELSE "done"

\* main, lines 688-720: the statement control goes to after the statement
\* at pc, which raised exc or ended normally ("none")
next_pc(pc, exc) ==
    IF pc \in {"generate_pdf", "open"} /\ exc # "none" THEN "except"
    ELSE IF pc = "generate_pdf" THEN "open"
    ELSE IF pc = "open" THEN "download"
    ELSE "done"

\* a session presses Generate (line 675 passed): its request starts
BeginRequest ==
    /\ Len(reqs) < MaxRequests
    /\ ~ValidationFails(all_data_of(form).basic)
    /\ reqs' = Append(reqs, NewRequest)
    /\ UNCHANGED <<parseVars, appVars, mideVars, wrap, geom>>

\* request i runs its next statement
StepRequest(i) ==
    /\ reqs[i].pc # "done"
    /\ IF reqs[i].pc = "mkdtemp"
       THEN \* line 512
            /\ ntmp' = ntmp + 1
            /\ fs' = fs \cup {mkdtemp(ntmp + 1)}
            /\ reqs' = [reqs EXCEPT ![i].n = ntmp + 1,
                                    ![i].created = {mkdtemp(ntmp + 1)},
                                    ![i].pc = "generate_pdf"]
       ELSE IF reqs[i].pc = "generate_pdf"
       THEN \* lines 513-569
            \E r \in {generate_pdf(all_data_of(form), reqs[i].n, fs, lib)} :
              /\ ntmp' = ntmp
              /\ fs' = r.fs
              /\ reqs' = [reqs EXCEPT
                    ![i].created =
                        generate_pdf(all_data_of(form), reqs[i].n, {},
                                     lib).fs,
                    ![i].read = IF r.composed
                                THEN image_files(all_data_of(form).images,
                                                 mkdtemp(reqs[i].n), 1)
                                ELSE {},
                    ![i].path = r.path,
                    ![i].exc = r.exc,
                    ![i].pc = next_pc("generate_pdf", r.exc)]
       ELSE IF reqs[i].pc = "open"
       THEN \* line 693
            LET exc == IF reqs[i].path \in fs THEN "none"
                       ELSE "FileNotFoundError"
            IN /\ reqs' = [reqs EXCEPT
                     ![i].read = IF exc = "none"
                                 THEN @ \cup {reqs[i].path} ELSE @,
                     ![i].exc = exc,
                     ![i].pc = next_pc("open", exc)]
               /\ UNCHANGED <<fs, ntmp>>
       ELSE IF reqs[i].pc = "download"
       THEN \* lines 697-716
            /\ reqs' = [reqs EXCEPT ![i].shown = "download",
                                    ![i].offered = TRUE,
                                    ![i].pc = next_pc("download", "none")]
            /\ UNCHANGED <<fs, ntmp>>
       ELSE \* lines 718-720
            /\ reqs' = [reqs EXCEPT ![i].shown = "generation_error",
                                    ![i].pc = next_pc("except", "none")]
            /\ UNCHANGED <<fs, ntmp>>
    /\ UNCHANGED <<form, lib, ui, last>>
    /\ UNCHANGED <<parseVars, mideVars, wrap, geom>>

RunRequest == \E i \in 1..Len(reqs) : StepRequest(i)

InitRequests ==
    /\ text = <<>> /\ landmarks = <<>> /\ recommendations = <<>>
    /\ pstate = "input"
    /\ form \in {f \in Forms : f.route_code # <<>> /\ f.route_name # <<>>}
    /\ lib = [caps |-> TRUE, qr |-> "ok"]
    /\ ui = "idle" /\ fs = {} /\ ntmp = 0 /\ last = NoCall
    /\ InitNoMide /\ InitNoWrap /\ InitNoReqs /\ InitNoGeom

NextRequests == BeginRequest \/ RunRequest

SpecRequests == InitRequests /\ [][NextRequests]_vars

----------------------------------------------------------------------------
(* pdf_generator.py: where the drawing steps of page 1 put what they draw. *)
(* Lengths are thousandths of a point; a placed item is the box of one     *)
(* canvas call: its lower-left corner (x, y), width w and height h.        *)

P(region, op, x, y, w, h, utext) ==
    [region |-> region, op |-> op, x |-> x, y |-> y, w |-> w, h |-> h,
     utext |-> utext]

\* v * p / 100 for the float factors 0.65, 0.55, 0.40 and 0.30
Pct(v, p) == (v * p) \div 100

\* width of a string at the character width _wrap_text uses (font_size * 0.5)
StrW(t, font_size) == Len(t) * font_size * 500

\* for line in lines[:3]: drawString(15 * mm, y_position, line);
\*                        y_position -= 11 * mm
lines_at(lines, y_position) ==
    [k \in 1..Len(lines) |->
        P("descriptions", "drawString", 15 * mm,
          y_position - (k - 1) * 11 * mm, StrW(lines[k], 9), 0, lines[k])]

\* the for loop of _draw_descriptions over paragraphs[i..]
RECURSIVE paragraphs_at(_, _, _, _)
paragraphs_at(paragraphs, i, col_width, y_position) ==
    IF i > Len(paragraphs) THEN <<>>
    ELSE IF i - 1 < 4
    THEN LET lines == Take(_wrap_text(paragraphs[i], col_width, 9), 3)
         IN lines_at(lines, y_position)
            \o paragraphs_at(paragraphs, i + 1, col_width,
                             y_position - Len(lines) * 11 * mm - 5 * mm)
    ELSE paragraphs_at(paragraphs, i + 1, col_width, y_position)

\* col_width of _draw_descriptions, the width it wraps to
descriptions_col_width == Pct(LANDSCAPE_WIDTH - 30 * mm, 65)

_draw_descriptions_at(paragraphs) ==
    paragraphs_at(paragraphs, 1, descriptions_col_width,
                  LANDSCAPE_HEIGHT - 20 * mm - 55 * mm - 10 * mm)

\* box_x, box_width, box_height, box_y of _draw_recommendations
box_x == LANDSCAPE_WIDTH - Pct(LANDSCAPE_WIDTH - 30 * mm, 65) + 5 * mm
box_width == Pct(LANDSCAPE_WIDTH - 30 * mm, 30)
box_height == 100 * mm
box_y == LANDSCAPE_HEIGHT - 20 * mm - 55 * mm - 10 * mm

\* the for loop of _draw_recommendations over recommendations[:5]
recs_at(recs, y_recomm) ==
    [k \in 1..(2 * Len(recs)) |->
        IF k % 2 = 1
        THEN P("recommendations", "circle", box_x + 7 * mm - 2 * mm,
               y_recomm - ((k - 1) \div 2) * 12 * mm - 2 * mm - 2 * mm,
               4 * mm, 4 * mm, NoText)
        ELSE P("recommendations", "drawString", box_x + 12 * mm,
               y_recomm - ((k - 1) \div 2) * 12 * mm - 5 * mm,
               StrW(Ellipsis(recs[k \div 2]), 7), 0,
               Ellipsis(recs[k \div 2]))]

_draw_recommendations_at(recs) ==
    <<P("recommendations", "rect", box_x, box_y - box_height, box_width,
        box_height, NoText),
      P("recommendations", "rect", box_x, box_y - box_height, box_width,
        box_height, NoText),
      P("recommendations", "drawString", box_x + 5 * mm, box_y - 8 * mm,
        StrW([i \in 1..15 |-> "R"], 11), 0, NoText)>>
    \o recs_at(Take(recs, 5), box_y - 15 * mm)

\* img_height of _draw_panoramic
img_height == 55 * mm

\* the for loop of _draw_panoramic over landmarks: the coordinates are sums
\* in points that the code multiplies by mm once more
RECURSIVE landmarks_at(_)
landmarks_at(lms) ==
    IF lms = <<>> THEN <<>>
    ELSE LET x == Get(Head(lms), "x", 0)
             y == Get(Head(lms), "y", 0)
             text_ == Get(Head(lms), "text", NoText)
         IN <<P("landmark", "roundRect", (x - 20) * mm,
                ((LANDSCAPE_HEIGHT - 20 * mm - img_height + y * 1000) * mm)
                    \div 1000,
                Len(text_) * 3 * mm + 5 * mm, 8 * mm, text_),
              P("landmark", "drawCentredString",
                x * mm - StrW(text_, 8) \div 2,
                ((LANDSCAPE_HEIGHT - 20 * mm - img_height + (y + 2) * 1000)
                    * mm) \div 1000,
                StrW(text_, 8), 0, text_)>>
            \o landmarks_at(Tail(lms))

\* the vertical label and the landmark tags; the picture itself is placed by
\* the size of the file and is left out
_draw_panoramic_at(lms) ==
    <<P("panoramic", "drawCentredString", 8 * mm,
        LANDSCAPE_HEIGHT - 20 * mm - img_height \div 2, 0,
        StrW([i \in 1..16 |-> "M"], 10), NoText)>>
    \o (IF lms # <<>> THEN landmarks_at(lms) ELSE <<>>)

----------------------------------------------------------------------------
(* pdf_generator.py: where the drawing steps of page 2 put what they draw *)

\* the border of the map; the picture is placed by the size of its file and
\* the application passes no waypoints
_draw_map_at ==
    LET map_width == LANDSCAPE_WIDTH - 30 * mm
        map_height == 80 * mm
        map_x == 10 * mm
        map_y == LANDSCAPE_HEIGHT - 25 * mm - map_height
    IN <<P("map", "rect", map_x, map_y, map_width, map_height, NoText)>>

\* the box the profile picture is fitted into, then the four labels
_draw_elevation_profile_at ==
    LET profile_width == Pct(LANDSCAPE_WIDTH - 30 * mm, 55)
        profile_height == 50 * mm
        profile_x == 10 * mm
        profile_y == 15 * mm + 55 * mm
    IN
    <<P("profile", "frame", profile_x, profile_y, profile_width,
        profile_height, NoText),
      P("profile", "drawCentredString", profile_x + 5 * mm,
        profile_y + profile_height + 2 * mm, 0, 0, NoText),
      P("profile", "drawCentredString", profile_x + Pct(profile_width, 30),
        profile_y + profile_height + 2 * mm, 0, 0, NoText),
      P("profile", "drawCentredString", profile_x + Pct(profile_width, 60),
        profile_y + profile_height + 2 * mm, 0, 0, NoText),
      P("profile", "drawCentredString", profile_x + profile_width - 20 * mm,
        profile_y + profile_height + 2 * mm, 0, 0, NoText)>>

\* the for loop of _draw_technical_table over data_rows[i..]
RECURSIVE rows_at(_, _, _, _)
rows_at(i, x, y_row, width) ==
    IF i > 5 THEN <<>>
    ELSE (IF (i - 1) % 2 = 0
          THEN <<P("technical_table", "rect", x, y_row - 2 * mm,
                   width \div 2, 7 * mm, NoText),
                 P("technical_table", "rect", x + width \div 2,
                   y_row - 2 * mm, width \div 2, 7 * mm, NoText)>>
          ELSE <<>>)
         \o <<P("technical_table", "drawString", x + 3 * mm, y_row, 0, 0,
                NoText),
              P("technical_table", "drawString", x + width \div 2 + 3 * mm,
                y_row, 0, 0, NoText)>>
         \o rows_at(i + 1, x, y_row - 7 * mm, width)

_draw_technical_table_at(x, y, width) ==
    <<P("technical_table", "rect", x, y - 12 * mm, width, 8 * mm, NoText),
      P("technical_table", "drawCentredString", x + width \div 2, y - 8 * mm,
        0, 0, NoText)>>
    \o rows_at(1, x, y - 12 * mm - 7 * mm, width)

\* the for loop of _draw_mide_grid: the border of each of the four cells and
\* its three strings
_draw_mide_grid_at(x, y, width) ==
    [k \in 1..16 |->
        LET i == (k - 1) \div 4
            cell_width == width \div 2
            cell_height == 25 * mm
            cell_x == x + (i % 2) * cell_width
            cell_y == y - (i \div 2) * cell_height
        IN IF k % 4 = 1
           THEN P("mide_grid", "rect", cell_x, cell_y, cell_width,
                  cell_height, NoText)
           ELSE IF k % 4 = 2
           THEN P("mide_grid", "drawCentredString",
                  cell_x + cell_width \div 2,
                  cell_y + cell_height \div 2 - 3 * mm, 0, 0, NoText)
           ELSE IF k % 4 = 3
           THEN P("mide_grid", "drawCentredString",
                  cell_x + cell_width \div 2, cell_y + cell_height - 8 * mm,
                  0, 0, NoText)
           ELSE P("mide_grid", "drawCentredString",
                  cell_x + cell_width \div 2, cell_y + cell_height - 14 * mm,
                  0, 0, NoText)]

\* _draw_info_bottom when every call of it returns
_draw_info_bottom_at(x, y) ==
    <<P("info_bottom", "drawString", x, y + 45 * mm, 0, 0, NoText),
      P("info_bottom", "rect", x + 5 * mm, y + 48 * mm, 30 * mm, 4 * mm,
        NoText),
      P("info_bottom", "rect", x + 38 * mm, y + 48 * mm, 30 * mm, 4 * mm,
        NoText),
      P("info_bottom", "rect", x + 71 * mm, y + 48 * mm, 20 * mm, 4 * mm,
        NoText),
      P("info_bottom", "drawString", x, y + 30 * mm, 0, 0, NoText)>>
    \o [i \in 1..4 |->
           P("consejos", "drawString", x, y + 25 * mm - (i - 1) * 4 * mm,
             0, 0, NoText)]
    \o <<P("info_bottom", "drawString", x, y + 12 * mm, 0, 0, NoText),
         P("info_bottom", "drawString", x, y + 7 * mm, 0, 0, NoText),
         P("info_bottom", "drawString", x, y + 2 * mm, 0, 0, NoText),
         P("info_bottom", "drawString", x, y - 2 * mm, 0, 0, NoText),
         P("qr", "drawImage", x + (x + 20 * mm), y, 20 * mm, 20 * mm,
           NoText)>>

_draw_mide_panel_at ==
    LET panel_x ==
            LANDSCAPE_WIDTH - Pct(LANDSCAPE_WIDTH - 30 * mm, 40) - 5 * mm
        panel_width == Pct(LANDSCAPE_WIDTH - 30 * mm, 40)
        panel_y == 15 * mm
        panel_height == 130 * mm
    IN
    <<P("info_panel", "rect", panel_x, panel_y, panel_width, panel_height,
        NoText),
      P("info_panel", "rect", panel_x, panel_y, panel_width, panel_height,
        NoText)>>
    \o _draw_technical_table_at(panel_x + 5 * mm,
                                panel_y + panel_height - 25 * mm,
                                panel_width - 10 * mm)
    \o _draw_mide_grid_at(panel_x + 5 * mm, panel_y + panel_height - 75 * mm,
                          panel_width - 10 * mm)
    \o _draw_info_bottom_at(panel_x + 5 * mm, panel_y + 5 * mm)

\* the header band and title, the map, the profile and the panel of page 2
_draw_page2_at ==
    <<P("header2", "rect", 0, LANDSCAPE_HEIGHT - 15 * mm, LANDSCAPE_WIDTH,
        15 * mm, NoText),
      P("header2", "drawCentredString", LANDSCAPE_WIDTH \div 2,
        LANDSCAPE_HEIGHT - 10 * mm, 0, 0, NoText)>>
    \o _draw_map_at
    \o _draw_elevation_profile_at
    \o _draw_mide_panel_at

----------------------------------------------------------------------------
(* The placement of one drawing step at a time, on the lists a record can *)
(* hold.                                                                  *)

\* a paragraph of n words, each too long for two of them to share a line
RECURSIVE ParagraphOf(_)
ParagraphOf(n) ==
    IF n = 0 THEN <<>>
    ELSE IF n = 1 THEN [i \in 1..LongWordLen |-> "a"]
    ELSE ParagraphOf(n - 1) \o <<" ">> \o [i \in 1..LongWordLen |-> "a"]

RECURSIVE ListsUpTo(_, _)
ListsUpTo(S, n) ==
    IF n = 0 THEN {<<>>}
    ELSE LET shorter == ListsUpTo(S, n - 1)
         IN shorter \cup {Append(l, e) : l \in {s \in shorter : Len(s) = n - 1},
                                         e \in S}

ParagraphLists == ListsUpTo({ParagraphOf(n) : n \in 1..MaxWords}, MaxParagraphs)

\* a recommendation of n characters
RecOf(n) == [i \in 1..n |-> "a"]

RecLists == ListsUpTo({RecOf(3), RecOf(60), RecOf(61)}, MaxRecs)

LandmarkLists == {parse_landmarks(t) : t \in Texts}

LayoutData ==
    {[paragraphs |-> ps, recommendations |-> <<>>, landmarks |-> <<>>] :
        ps \in ParagraphLists}
    \cup {[paragraphs |-> <<>>, recommendations |-> rs, landmarks |-> <<>>] :
        rs \in RecLists}
    \cup {[paragraphs |-> <<>>, recommendations |-> <<>>, landmarks |-> ls] :
        ls \in LandmarkLists}

\* self._draw_panoramic(..., data.get('landmarks', []))
CallDrawPanoramic ==
    /\ geom.call = "none"
    /\ geom' = [geom EXCEPT !.call = "panoramic",
                            !.placed = _draw_panoramic_at(geom.data.landmarks)]
    /\ UNCHANGED <<parseVars, appVars, mideVars, wrap, reqs>>

\* self._draw_descriptions(data.get('paragraphs', []))
CallDrawDescriptions ==
    /\ geom.call = "none"
    /\ geom' = [geom EXCEPT !.call = "descriptions",
                            !.placed =
                                _draw_descriptions_at(geom.data.paragraphs)]
    /\ UNCHANGED <<parseVars, appVars, mideVars, wrap, reqs>>

\* self._draw_recommendations(data.get('recommendations', []))
CallDrawRecommendations ==
    /\ geom.call = "none"
    /\ geom' = [geom EXCEPT !.call = "recommendations",
                            !.placed = _draw_recommendations_at(
                                           geom.data.recommendations)]
    /\ UNCHANGED <<parseVars, appVars, mideVars, wrap, reqs>>

\* self._draw_page2(page2_data) up to the footer
CallDrawPage2At ==
    /\ geom.call = "none"
    /\ geom' = [geom EXCEPT !.call = "page2", !.placed = _draw_page2_at]
    /\ UNCHANGED <<parseVars, appVars, mideVars, wrap, reqs>>

InitLayout ==
    /\ text = <<>> /\ landmarks = <<>> /\ recommendations = <<>>
    /\ pstate = "input"
    /\ form \in {f \in Forms : f.route_code = <<>> /\ f.route_name = <<>>
                               /\ f.web = <<>> /\ f.panoramic = "none"
                               /\ f.map = "none" /\ f.profile = "none"
                               /\ f.logo_left = "none"
                               /\ f.logo_right = "none"}
    /\ lib = [caps |-> TRUE, qr |-> "ok"]
    /\ ui = "idle" /\ fs = {} /\ ntmp = 0 /\ last = NoCall
    /\ InitNoMide /\ InitNoWrap /\ InitNoReqs
    /\ geom \in {[call |-> "none", data |-> d, placed |-> <<>>] :
                    d \in LayoutData}

NextLayout ==
    \/ CallDrawPanoramic
    \/ CallDrawDescriptions
    \/ CallDrawRecommendations
    \/ CallDrawPage2At

SpecLayout == InitLayout /\ [][NextLayout]_vars

----------------------------------------------------------------------------
(* What the claims read off a generator *)

\* every directive issued on the canvas, on an emitted page or on the
\* page being drawn
Issued(g) ==
    {g.pages[j][i] : <<j, i>> \in
        {p \in (1..Len(g.pages)) \X (1..60) : p[2] <= Len(g.pages[p[1]])}}
    \cup {g.code[i] : i \in 1..Len(g.code)}

HasReturned(g, step) == \E i \in 1..Len(g.steps) : g.steps[i] = step

Page1Regions == {"header", "logo_left", "logo_right", "panoramic", "landmark",
                 "descriptions", "recommendations", "footer1"}
Page2Regions == {"header2", "map", "profile", "info_panel", "technical_table",
                 "mide_grid", "info_bottom", "consejos", "qr", "footer2"}

ValidForm == form.route_code # <<>> /\ form.route_name # <<>>

----------------------------------------------------------------------------
(* Claims *)

\* C1: for every record with a non-empty route code and route name, a
\* generation request from main runs to completion without raising and ends
\* with the document offered for download, never in the generation error.
C1_GenerationSucceeds ==
    (last.entry = "main" /\ ValidForm)
        => (ui = "download" /\ last.exc = "none" /\ last.offered)

\* C2: the pages emitted by showPage()/save() since the canvas was created
\* are the two pages of the document and nothing else: no page is blank,
\* page 1 carries only page-1 regions, page 2 only page-2 regions, and a
\* saved document has exactly two pages.
C2_ExactlyTwoPages ==
    last.entry = "create" =>
        /\ Len(last.g.pages) <= 2
        /\ \A j \in 1..Len(last.g.pages) :
              /\ last.g.pages[j] # <<>>
              /\ \A i \in 1..Len(last.g.pages[j]) :
                    last.g.pages[j][i].region \in
                        (IF j = 1 THEN Page1Regions ELSE Page2Regions)
        /\ (last.g.saved => Len(last.g.pages) = 2)

\* C3: the page size set on the canvas is the landscape size the layout is
\* computed in: width LANDSCAPE_WIDTH and height LANDSCAPE_HEIGHT.
C3_LandscapePageSize ==
    last.composed =>
        /\ last.g.pagesize[1] = LANDSCAPE_WIDTH
        /\ last.g.pagesize[2] = LANDSCAPE_HEIGHT

\* C4: when the route code or the route name is empty, pressing Generate is
\* refused with the validation error: generate_pdf is not called, no drawing
\* directive is issued, no file is created and no download is offered.
C4_RefusedWithoutCodeOrName ==
    (last.entry = "main" /\ ~ValidForm) =>
        /\ ui = "validation_error"
        /\ ~last.called
        /\ ~last.composed
        /\ Issued(last.g) = {}
        /\ last.created = {}
        /\ fs = {<<"tmp", n>> : n \in 1..ntmp}
        /\ ~last.offered

\* C4 witness: Generate was pressed with an empty code and a name
C4_Witness ==
    /\ last.entry = "main"
    /\ form.route_code = <<>> /\ form.route_name # <<>>
    /\ ui = "validation_error"

\* a placeholder panel in a region: a filled box drawn in it
HasPlaceholder(g, region) ==
    \E d \in Issued(g) :
        d.region = region /\ d.op \in {"rect", "roundRect"} /\ d.fill = 1

RegionImage(region) ==
    IF region = "panoramic" THEN form.panoramic
    ELSE IF region = "map" THEN form.map
    ELSE form.profile

\* C5: for each of the three image regions, when its image is absent or
\* fails to open or decode, the drawing step of the region draws the
\* placeholder panel in place of the image.
C5_PlaceholderDrawn ==
    \A region \in {"panoramic", "map", "profile"} :
        (HasReturned(last.g, region) /\ RegionImage(region) # "ok")
            => HasPlaceholder(last.g, region)

\* the drawing steps of generate, in the order of the code
ComposerSteps ==
    <<"header", "panoramic", "descriptions", "recommendations", "footer1",
      "header2", "map", "profile", "technical_table", "mide_grid",
      "info_bottom", "mide_panel", "footer2">>

\* the step that touches each image
ImageStep ==
    [panoramic |-> "panoramic", map |-> "map", profile |-> "profile",
     logo_left |-> "header", logo_right |-> "header"]

StepIndex(step) == CHOOSE i \in 1..Len(ComposerSteps) : ComposerSteps[i] = step

\* C6: a failure on any single image is caught inside the step that touches
\* it: that step returns normally and every later drawing step of the same
\* page and of the following page is still executed.
C6_ImageFailureContained ==
    last.entry = "create" =>
        \A k \in DOMAIN ImageStep :
            form[k] = "bad" =>
                \A i \in StepIndex(ImageStep[k])..Len(ComposerSteps) :
                    HasReturned(last.g, ComposerSteps[i])

\* C7: with an empty web URL the contact block is drawn without a QR image:
\* no QR encoding is attempted, no QR image is drawn, no exception is raised.
C7_NoQRForEmptyUrl ==
    (last.entry = "page2" /\ HasReturned(last.g, "mide_grid")
     /\ form.web = <<>>) =>
        /\ last.g.qr = "not_attempted"
        /\ \A d \in Issued(last.g) : d.region # "qr"
        /\ HasReturned(last.g, "info_bottom")
        /\ last.g.exc \notin {"QRError", "AttributeError"}

\* C8: a failure of the QR encoding or of the QR drawing is caught inside
\* the contact block: the block ends without a QR image, the page-2 footer
\* is still drawn and the document is still saved.
C8_QRFailureContained ==
    last.g.qr \in {"encode_failed", "draw_failed"} =>
        /\ HasReturned(last.g, "info_bottom")
        /\ \A d \in Issued(last.g) : d.region # "qr"
        /\ HasReturned(last.g, "footer2")
        /\ (last.entry = "create" => last.g.saved)

\* C9: the landmark at position k (from 0) of the sequence parse_landmarks
\* returns has horizontal offset 20, 45, 70 for k = 0, 1, 2 and 50 for
\* k >= 3, whatever blank lines the text holds.
C9_OffsetsByPosition ==
    pstate = "parsed" =>
        \A k \in 1..Len(landmarks) :
            landmarks[k].x = (IF k - 1 < 3 THEN 20 + 25 * (k - 1) ELSE 50)

\* the lines of a text, read off its newline positions: line j starts after
\* the (j-1)th newline and ends before the jth
LineStarts(t) == {s \in 1..(Len(t) + 1) : s = 1 \/ t[s - 1] = "\n"}

LineEnd(t, s) ==
    CHOOSE e \in s..(Len(t) + 1) :
        /\ (e = Len(t) + 1 \/ t[e] = "\n")
        /\ \A k \in s..(e - 1) : t[k] # "\n"

\* a line without its surrounding whitespace: from its first to its last
\* character that is no whitespace
Trimmed(l) ==
    LET ink == {i \in 1..Len(l) : l[i] \notin Whitespace}
    IN IF ink = {} THEN <<>>
       ELSE SubSeq(l, CHOOSE a \in ink : \A b \in ink : a <= b,
                      CHOOSE a \in ink : \A b \in ink : a >= b)

TrimmedLine(t, s) == Trimmed(SubSeq(t, s, LineEnd(t, s) - 1))

\* the non-empty trimmed lines of a text, in input order
NonEmptyLines(t) ==
    LET starts == {s \in LineStarts(t) : TrimmedLine(t, s) # <<>>}
    IN [k \in 1..Cardinality(starts) |->
           TrimmedLine(t, CHOOSE s \in starts :
                              Cardinality({u \in starts : u <= s}) = k)]

\* C10: both line parsers return exactly the non-empty lines of the input,
\* each trimmed, one item per line and in input order (so a blank input
\* gives the empty sequence), and every landmark has the same vertical
\* offset.
C10_NonEmptyTrimmedLines ==
    pstate = "parsed" =>
        /\ [k \in 1..Len(landmarks) |-> landmarks[k].text]
               = NonEmptyLines(text)
        /\ recommendations = NonEmptyLines(text)
        /\ \A k \in 1..Len(landmarks) : landmarks[k].y = 35
        /\ ((\A i \in 1..Len(text) : text[i] \in Whitespace)
                => landmarks = <<>> /\ recommendations = <<>>)

\* C10 witness: a parsed text with padded lines and a blank line between
C10_Witness ==
    /\ pstate = "parsed"
    /\ text = <<" ", "a", " ", "\n", " ", "\n", "a">>
    /\ Len(landmarks) = 2 /\ Len(recommendations) = 2

\* the colours of the four cells of the grid drawn in the document: the
\* stroke colour of each cell's border, in drawing order
GridColors(g) ==
    LET cells == SelectSeq(g.code, LAMBDA d : d.op = "rect"
                                              /\ d.region = "mide_grid")
    IN [i \in 1..Len(cells) |-> cells[i].color]

\* the colour class of a rating value, as the rule states it
RatingClass(v) == IF v \in {1, 2} THEN "low"
                  ELSE IF v = 3 THEN "mid" ELSE "high"

\* the class each colour in use stands for
ColorClass(c) == IF c = "#007A33" THEN "low"
                 ELSE IF c = "#E8AF2E" THEN "mid"
                 ELSE IF c = "#E74C3C" THEN "high" ELSE "other"

ColorName(c) == IF c = "#007A33" THEN "Verde"
                ELSE IF c = "#E8AF2E" THEN "Amarillo"
                ELSE IF c = "#E74C3C" THEN "Rojo" ELSE "other"

\* C19: for every rating value v the colour used for v in the preview and
\* in the grid of the document is the colour the scale table states for v;
\* in particular the colours used for 4 and for 5 differ.
C19_ColoursMatchScaleTable ==
    /\ \A k \in 1..4 :
          /\ mide_colors # <<>> =>
                ColorName(mide_colors[k]) = ScaleTable[mide_values(mide)[k]]
          /\ last.entry = "mide_grid" =>
                ColorName(GridColors(last.g)[k])
                    = ScaleTable[mide_values(mide)[k]]
    /\ \A j, k \in 1..4 :
          (mide_colors # <<>> /\ mide_values(mide)[j] = 4
           /\ mide_values(mide)[k] = 5) => mide_colors[j] # mide_colors[k]

\* a line fits the width budget: its length times the per-character width
\* (half the font size) is at most max_width
Fits(line) == Len(line) * wrap.font_size * 500 <= wrap.max_width

\* the words of a text: its maximal runs of characters that are no space,
\* in order
WordStarts(t) ==
    {i \in 1..Len(t) : t[i] # " " /\ (i = 1 \/ t[i - 1] = " ")}

WordEnd(t, i) ==
    CHOOSE e \in i..Len(t) :
        /\ \A k \in i..e : t[k] # " "
        /\ (e = Len(t) \/ t[e + 1] = " ")

WordsOf(t) ==
    [k \in 1..Cardinality(WordStarts(t)) |->
        LET i == CHOOSE j \in WordStarts(t) :
                     Cardinality({u \in WordStarts(t) : u <= j}) = k
        IN SubSeq(t, i, WordEnd(t, i))]

Wrapped == wrap.state \in {"wrapped", "rewrapped"}

\* C12: every line returned by _wrap_text either fits the width budget or
\* is exactly one word of the input that is itself wider than max_width,
\* whole and unsplit.
C12_LinesFitOrSingleWord ==
    Wrapped =>
        \A i \in 1..Len(wrap.lines) :
            \/ Fits(wrap.lines[i])
            \/ /\ \A k \in 1..Len(wrap.lines[i]) : wrap.lines[i][k] # " "
               /\ \E j \in 1..Len(WordsOf(text)) :
                     WordsOf(text)[j] = wrap.lines[i]

\* C12 witness: an over-wide word alone on its line, next to a line that fits
C12_Witness ==
    /\ Wrapped
    /\ text = <<"a", "a", "a", " ", "b">>
    /\ wrap.max_width = 9000 /\ wrap.font_size = 9
    /\ wrap.lines = << <<"a", "a", "a">>, <<"b">> >>

\* C13: joining the lines returned by _wrap_text with single spaces and
\* wrapping the result again at the same width and font size returns the
\* same sequence of lines, for every input string.
C13_WrapIdempotent ==
    wrap.state = "rewrapped" => wrap.relines = wrap.lines

\* C13 witness: a text with leading, repeated and trailing spaces wrapped
\* into two lines, and wrapped again
C13_Witness ==
    /\ wrap.state = "rewrapped"
    /\ text = <<" ", "a", " ", " ", "b", " ">>
    /\ Len(wrap.lines) = 2

\* C14: the non-empty words of the returned lines, read line by line, are
\* exactly the non-empty space-separated words of the input in the same
\* order; no returned line is empty; the empty string yields no line.
C14_WordsPreserved ==
    Wrapped =>
        /\ WordsOf(JoinLines(wrap.lines)) = WordsOf(text)
        /\ \A i \in 1..Len(wrap.lines) : wrap.lines[i] # <<>>
        /\ (text = <<>> => wrap.lines = <<>>)

\* C14 witness: three different words wrapped one per line
C14_Witness ==
    /\ Wrapped
    /\ text = <<"a", " ", "b", "b", " ", "a">>
    /\ Len(wrap.lines) = 3

C16_RequestDiscardsItsFiles ==
    (last.entry = "main" /\ last.called) => last.created \cap fs = {}

\* C17: if a step of generate_pdf or of the composer raises, the request
\* ends in the error state: the error message is shown and neither a
\* download button nor document bytes are offered.
C17_RaiseEndsInErrorState ==
    \A i \in 1..Len(reqs) :
        reqs[i].exc # "none" =>
            /\ ~reqs[i].offered
            /\ reqs[i].shown # "download"
            /\ reqs[i].pc \in {"except", "done"}
            /\ (reqs[i].pc = "done" => reqs[i].shown = "generation_error")

\* C17 witness: a request that raised has finished
C17_Witness ==
    \E i \in 1..Len(reqs) :
        reqs[i].exc # "none" /\ reqs[i].pc = "done"

\* C18: a logo supplied in the form (and loadable) is drawn in its box of
\* the page-1 header of the generated document, the left logo in the left
\* box and the right logo in the right box.
C18_SuppliedLogosDrawn ==
    (last.entry = "main" /\ last.called) =>
        \A k \in {"logo_left", "logo_right"} :
            form[k] = "ok" =>
                \E d \in Issued(last.g) :
                    d.op = "drawImage" /\ d.region = k

\* the directives of the emitted pages, one after the other
RECURSIVE Flatten(_)
Flatten(pages) ==
    IF pages = <<>> THEN <<>> ELSE Head(pages) \o Flatten(Tail(pages))

\* every directive issued on the canvas, in the order of issue
IssuedInOrder(g) == Flatten(g.pages) \o g.code

\* the place of each region in the order the claim states
RegionRank(region) ==
    CASE region \in {"header", "logo_left", "logo_right"} -> 1
      [] region = "panoramic" -> 2
      [] region = "landmark" -> 3
      [] region = "descriptions" -> 4
      [] region = "recommendations" -> 5
      [] region = "footer1" -> 6
      [] region = "header2" -> 7
      [] region = "map" -> 8
      [] region = "profile" -> 9
      [] region = "info_panel" -> 10
      [] region = "technical_table" -> 11
      [] region = "mide_grid" -> 12
      [] region \in {"info_bottom", "consejos"} -> 13
      [] region = "qr" -> 14
      [] region = "footer2" -> 15
      [] OTHER -> 0

PlacedIn(region) ==
    {geom.placed[k] : k \in {j \in DOMAIN geom.placed :
                                geom.placed[j].region = region}}

\* C21: _draw_descriptions draws no description line below the bottom
\* margin, 20 mm above the bottom of the page, and so none at a negative y,
\* whatever the paragraphs are.
C21_NoLineBelowBottomMargin ==
    geom.call = "descriptions" =>
        \A p \in PlacedIn("descriptions") : p.y >= 20 * mm

\* the texts of the recommendation items a call placed, in drawing order
PlacedRecs ==
    SelectSeq(geom.placed,
              LAMBDA p : p.op = "drawString" /\ p.utext # NoText)

\* C22: for a recommendations list of length n the panel draws min(n, cap)
\* items with cap between 5 and 6, and the text of no drawn item extends
\* past the right edge of the panel.
C22_ItemsCappedAndInsidePanel ==
    geom.call = "recommendations" =>
        /\ \E cap \in 5..6 :
              Len(PlacedRecs) =
                  (IF Len(geom.data.recommendations) < cap
                   THEN Len(geom.data.recommendations) ELSE cap)
        /\ \A k \in DOMAIN PlacedRecs :
              PlacedRecs[k].x + PlacedRecs[k].w <= box_x + box_width

\* the hero image region: img_height high from img_y_start, under the 20 mm
\* header, and as wide as the thumbnail may be, centred
HeroRight == LANDSCAPE_WIDTH - 10 * mm
HeroBottom == LANDSCAPE_HEIGHT - 20 * mm - img_height
HeroTop == LANDSCAPE_HEIGHT - 20 * mm

\* C23: every landmark tag that is drawn lies on the hero image region: its
\* rectangle and its text are between the bottom and the top edge of the
\* region and left of its right edge.
C23_TagsOnHeroImage ==
    geom.call = "panoramic" =>
        \A p \in PlacedIn("landmark") :
            /\ HeroBottom <= p.y /\ p.y + p.h <= HeroTop
            /\ p.x + p.w <= HeroRight

\* the one placed item of a region with the given operation
Frame(region, op) ==
    CHOOSE p \in PlacedIn(region) : p.op = op

\* two boxes share a point of their interiors
Intersect(a, b) ==
    /\ a.x < b.x + b.w /\ b.x < a.x + a.w
    /\ a.y < b.y + b.h /\ b.y < a.y + a.h

\* C24: on page 2 the map frame does not intersect the right-side info
\* panel, and the top edge of the elevation-profile frame is at or below the
\* bottom edge of the map frame.
C24_Page2PanelsDisjoint ==
    geom.call = "page2" =>
        /\ ~Intersect(Frame("map", "rect"), Frame("info_panel", "rect"))
        /\ Frame("profile", "frame").y + Frame("profile", "frame").h
               <= Frame("map", "rect").y

\* lowest and highest y a region's placed items reach
Bottom(region) ==
    CHOOSE y \in {p.y : p \in PlacedIn(region)} :
        \A p \in PlacedIn(region) : y <= p.y

Top(region) ==
    CHOOSE y \in {p.y + p.h : p \in PlacedIn(region)} :
        \A p \in PlacedIn(region) : p.y + p.h <= y

\* C25: inside the info panel the metrics table lies entirely above the
\* rating grid, the rating grid entirely above the contact/information
\* block, and all three between the panel's bottom and top edges.
C25_PanelBlocksStacked ==
    geom.call = "page2" =>
        /\ Top("mide_grid") <= Bottom("technical_table")
        /\ Top("info_bottom") <= Bottom("mide_grid")
        /\ \A r \in {"technical_table", "mide_grid", "info_bottom"} :
              /\ Bottom("info_panel") <= Bottom(r)
              /\ Top(r) <= Top("info_panel")

\* C26: the horizontal extent available to description text, from the x a
\* line starts at to that x plus the wrapping width, does not reach the
\* recommendations panel, and no description line is drawn over the panel.
C26_ColumnsDisjoint ==
    geom.call = "descriptions" =>
        \A p \in PlacedIn("descriptions") :
            /\ p.x + descriptions_col_width <= box_x
            /\ p.x + p.w <= box_x

\* C27: both pages get a footer of the same structure: the footer of page k
\* shows the page label k/2 at the left, the fixed brand label centred and
\* the date of the record at the right.
C27_FooterOnBothPages ==
    last.entry = "create" =>
        \A k \in 1..2 :
            /\ \E d \in Issued(last.g) :
                  /\ d.op = "drawString" /\ d.region = FooterRegion(k)
                  /\ d.label = FooterLabel(k)
            /\ \E d \in Issued(last.g) :
                  /\ d.op = "drawCentredString" /\ d.region = FooterRegion(k)
                  /\ d.label = "Castilla-La Mancha"
            /\ \E d \in Issued(last.g) :
                  d.op = "drawRightString" /\ d.region = FooterRegion(k)

====
